---- MODULE Spec2Model ----
(***************************************************************************)
(* Monty Hall: the unitary quantum simulator                                *)
(* (simulacion_cuantica_pyquil.py), the classical game and its Monte Carlo  *)
(* driver (simulacion_clasica.py), and the variant with an intermediate     *)
(* measurement (simulacion_cuantica_con_medicion.py).                       *)
(*                                                                          *)
(* Numbers.  Every amplitude the source writes is a real float built from   *)
(* 1.0, 1/sqrt(2) and 1/sqrt(3) by sums and products.  An amplitude is      *)
(* modelled exactly as <<a, b, c, d, n>> in lowest terms, standing for      *)
(*        (a + b*sqrt(2) + c*sqrt(3) + d*sqrt(6)) / n ,   n > 0 .           *)
(* Floating-point rounding is not modelled; the source's thresholds         *)
(* (1e-15, 1e-10) separate exact zero from the smallest value that occurs.  *)
(***************************************************************************)
EXTENDS Integers, Sequences, FiniteSets, TLC

\* ------------------------------------------------------------------------
\* Bounds of the model
\* ------------------------------------------------------------------------
\* Caller-supplied vectors have lengths dim - MaxDesvio .. dim + MaxDesvio.
MaxDesvio == 1

\* A caller applies at most MaxAplicaciones operators in a row to one vector.
MaxAplicaciones == 2

\* simular_monte_carlo is called with num_partidas in 0 .. MaxPartidas; the
\* sample list holds 10 games, so the bound lies above 10.
MaxPartidas == 11

\* ------------------------------------------------------------------------
\* Exact arithmetic on amplitudes
\* ------------------------------------------------------------------------
Cero == <<0, 0, 0, 0, 1>>
Uno == <<1, 0, 0, 0, 1>>

\* 1.0 / np.sqrt(2) and 1.0 / np.sqrt(3)
InvSqrt2 == <<0, 1, 0, 0, 2>>
InvSqrt3 == <<0, 0, 1, 0, 3>>

Abs(n) == IF n < 0 THEN -n ELSE n

RECURSIVE MCD(_, _)
MCD(m, n) == IF n = 0 THEN m ELSE MCD(n, m % n)

\* lowest terms
Reducir(x) ==
    LET g == MCD(MCD(MCD(MCD(x[5], Abs(x[1])), Abs(x[2])), Abs(x[3])), Abs(x[4]))
    IN  <<x[1] \div g, x[2] \div g, x[3] \div g, x[4] \div g, x[5] \div g>>

Mas(x, y) ==
    IF x = Cero THEN y
    ELSE IF y = Cero THEN x
    ELSE Reducir(<<x[1]*y[5] + y[1]*x[5], x[2]*y[5] + y[2]*x[5],
                   x[3]*y[5] + y[3]*x[5], x[4]*y[5] + y[4]*x[5], x[5]*y[5]>>)

Por(x, y) ==
    IF x = Cero \/ y = Cero THEN Cero
    ELSE Reducir(<<x[1]*y[1] + 2*x[2]*y[2] + 3*x[3]*y[3] + 6*x[4]*y[4],
                   x[1]*y[2] + x[2]*y[1] + 3*(x[3]*y[4] + x[4]*y[3]),
                   x[1]*y[3] + x[3]*y[1] + 2*(x[2]*y[4] + x[4]*y[2]),
                   x[1]*y[4] + x[4]*y[1] + x[2]*y[3] + x[3]*y[2],
                   x[5]*y[5]>>)

\* np.abs(amp) ** 2 for a real amplitude
AbsCuadrado(amp) == Por(amp, amp)

\* np.abs(amp) < 1e-15
EsDespreciable(amp) == amp = Cero

\* ------------------------------------------------------------------------
\* Bit operations on naturals
\* ------------------------------------------------------------------------
RECURSIVE Pot2(_)
Pot2(n) == IF n = 0 THEN 1 ELSE 2 * Pot2(n - 1)

ShiftLeft(x, n) == x * Pot2(n)
ShiftRight(x, n) == x \div Pot2(n)

RECURSIVE BitOr(_, _)
BitOr(x, y) ==
    IF x = 0 THEN y
    ELSE IF y = 0 THEN x
    ELSE (IF x % 2 = 1 \/ y % 2 = 1 THEN 1 ELSE 0)
         + 2 * BitOr(x \div 2, y \div 2)

RECURSIVE BitAnd(_, _)
BitAnd(x, y) ==
    IF x = 0 \/ y = 0 THEN 0
    ELSE (IF x % 2 = 1 /\ y % 2 = 1 THEN 1 ELSE 0)
         + 2 * BitAnd(x \div 2, y \div 2)

\* ------------------------------------------------------------------------
\* Basis codec
\* ------------------------------------------------------------------------
\* encode with monty shifted by 3 bits instead of 4
encode_Shift3(premio, jugador, monty) ==
    BitOr(BitOr(ShiftLeft(monty, 3), ShiftLeft(jugador, 2)), premio)

\* encode of crear_operador_monty: (monty << 4) | (jugador << 2) | premio
encode(premio, jugador, monty) ==
    BitOr(BitOr(ShiftLeft(monty, 4), ShiftLeft(jugador, 2)), premio)

\* premio = idx & 0b11; jugador = (idx >> 2) & 0b11; monty = (idx >> 4) & 0b11
decode_premio(idx) == BitAnd(idx, 3)
decode_jugador(idx) == BitAnd(ShiftRight(idx, 2), 3)
decode_monty(idx) == BitAnd(ShiftRight(idx, 4), 3)
decode(idx) == <<decode_premio(idx), decode_jugador(idx), decode_monty(idx)>>

\* encode of crear_operador_cambiar with the two registers exchanged
encode_cambiar_Invertido(jugador, monty) == BitOr(ShiftLeft(jugador, 2), monty)

\* encode of crear_operador_cambiar: (monty << 2) | jugador
encode_cambiar(jugador, monty) == BitOr(ShiftLeft(monty, 2), jugador)

\* ------------------------------------------------------------------------
\* Operators
\* ------------------------------------------------------------------------
dim == 64
dim_cambiar == 16

\* np.zeros(n), np.eye(n)
Zeros1(n) == [i \in 0..(n-1) |-> Cero]
Eye(n) == [r \in 0..(n-1) |-> [c \in 0..(n-1) |-> IF r = c THEN Uno ELSE Cero]]

\* A matrix under construction is the list of assignments U[fila, col] = val
\* executed so far, in execution order, on np.zeros((n, n)): an entry holds
\* the value of the last assignment to it, or zero when there is none.
Asignar(fila, col, val) == <<[fila |-> fila, col |-> col, val |-> val]>>

Matriz(n, asignaciones) ==
    [r \in 0..(n-1) |-> [c \in 0..(n-1) |->
        LET w == SelectSeq(asignaciones, LAMBDA a : a.fila = r /\ a.col = c)
        IN  IF Len(w) = 0 THEN Cero ELSE w[Len(w)].val]]

\* MontyRepartir with the 1/sqrt(2) coefficient forgotten
RECURSIVE MontyRepartir_SinNormalizar(_, _, _, _, _)
MontyRepartir_SinNormalizar(premio, jugador, lista, k, idx_in) ==
    IF k > Len(lista) THEN << >>
    ELSE Asignar(encode(premio, jugador, lista[k]), idx_in, Uno)
         \o MontyRepartir_SinNormalizar(premio, jugador, lista, k + 1, idx_in)

\* for monty_out in lista: U[encode(premio, jugador, monty_out), idx_in] = coef
RECURSIVE MontyRepartir(_, _, _, _, _)
MontyRepartir(premio, jugador, lista, k, idx_in) ==
    IF k > Len(lista) THEN << >>
    ELSE Asignar(encode(premio, jugador, lista[k]), idx_in, InvSqrt2)
         \o MontyRepartir(premio, jugador, lista, k + 1, idx_in)

\* MontyOpciones without the test on the player's door
MontyOpciones_SoloPremio(premio, jugador) ==
    SelectSeq(<<0, 1, 2>>, LAMBDA puerta : puerta # premio)

\* the doors Monty may reveal: neither the prize nor the player's door
MontyOpciones(premio, jugador) ==
    SelectSeq(<<0, 1, 2>>, LAMBDA puerta : puerta # premio /\ puerta # jugador)

\* MontyCuerpo writing nothing for an incoming monty register other than 0
MontyCuerpo_SinIdentidad(premio, jugador, monty_in) ==
    LET idx_in == encode(premio, jugador, monty_in)
        opciones == MontyOpciones(premio, jugador)
    IN  IF monty_in # 0 THEN << >>
        ELSE IF premio = 3 \/ jugador = 3 THEN Asignar(idx_in, idx_in, Uno)
        ELSE IF Len(opciones) = 0
             THEN MontyRepartir(premio, jugador,
                      SelectSeq(<<0, 1, 2>>, LAMBDA p : p # premio), 1, idx_in)
        ELSE IF Len(opciones) = 1
             THEN Asignar(encode(premio, jugador, opciones[1]), idx_in, Uno)
        ELSE MontyRepartir(premio, jugador, opciones, 1, idx_in)

\* body of the triple loop of crear_operador_monty
MontyCuerpo(premio, jugador, monty_in) ==
    LET idx_in == encode(premio, jugador, monty_in)
        opciones == MontyOpciones(premio, jugador)
    IN  IF monty_in # 0 THEN Asignar(idx_in, idx_in, Uno)
        ELSE IF premio = 3 \/ jugador = 3 THEN Asignar(idx_in, idx_in, Uno)
        ELSE IF Len(opciones) = 0
             THEN MontyRepartir(premio, jugador,
                      SelectSeq(<<0, 1, 2>>, LAMBDA p : p # premio), 1, idx_in)
        ELSE IF Len(opciones) = 1
             THEN Asignar(encode(premio, jugador, opciones[1]), idx_in, Uno)
        ELSE MontyRepartir(premio, jugador, opciones, 1, idx_in)

\* for premio in range(4): for jugador in range(4): for monty_in in range(4)
MontyBucleMonty(premio, jugador) ==
    MontyCuerpo(premio, jugador, 0) \o MontyCuerpo(premio, jugador, 1)
    \o MontyCuerpo(premio, jugador, 2) \o MontyCuerpo(premio, jugador, 3)

MontyBucleJugador(premio) ==
    MontyBucleMonty(premio, 0) \o MontyBucleMonty(premio, 1)
    \o MontyBucleMonty(premio, 2) \o MontyBucleMonty(premio, 3)

MontyBuclePremio ==
    MontyBucleJugador(0) \o MontyBucleJugador(1)
    \o MontyBucleJugador(2) \o MontyBucleJugador(3)

crear_operador_monty == Matriz(dim, MontyBuclePremio)

\* [p for p in [0, 1, 2] if p != jugador and p != monty][0]
PuertaRestante(jugador, monty) ==
    SelectSeq(<<0, 1, 2>>, LAMBDA p : p # jugador /\ p # monty)[1]

\* CambiarCuerpo without the jugador == monty case of the identity branch
CambiarCuerpo_SinIguales(jugador, monty) ==
    LET idx_in == encode_cambiar(jugador, monty)
    IN  IF jugador = 3 \/ monty = 3
        THEN Asignar(idx_in, idx_in, Uno)
        ELSE Asignar(encode_cambiar(PuertaRestante(jugador, monty), monty),
                     idx_in, Uno)

\* body of the double loop of crear_operador_cambiar
CambiarCuerpo(jugador, monty) ==
    LET idx_in == encode_cambiar(jugador, monty)
    IN  IF jugador = 3 \/ monty = 3 \/ jugador = monty
        THEN Asignar(idx_in, idx_in, Uno)
        ELSE Asignar(encode_cambiar(PuertaRestante(jugador, monty), monty),
                     idx_in, Uno)

\* for jugador in range(4): for monty in range(4)
CambiarBucleMonty(jugador) ==
    CambiarCuerpo(jugador, 0) \o CambiarCuerpo(jugador, 1)
    \o CambiarCuerpo(jugador, 2) \o CambiarCuerpo(jugador, 3)

CambiarBucleJugador ==
    CambiarBucleMonty(0) \o CambiarBucleMonty(1)
    \o CambiarBucleMonty(2) \o CambiarBucleMonty(3)

crear_operador_cambiar == Matriz(dim_cambiar, CambiarBucleJugador)

\* sum of f[lo] .. f[hi]
RECURSIVE SumaRango(_, _, _)
SumaRango(f, lo, hi) ==
    IF lo > hi THEN Cero
    ELSE IF lo = hi THEN f[lo]
    ELSE LET mid == (lo + hi) \div 2
         IN  Mas(SumaRango(f, lo, mid), SumaRango(f, mid + 1, hi))

\* sum of f[0] .. f[n-1]
Suma(f, n) == SumaRango(f, 0, n - 1)

\* U.conj().T @ U for a real matrix of order n
ProductoAdjunto(U, n) ==
    [i \in 0..(n-1) |-> [j \in 0..(n-1) |->
        Suma([k \in 0..(n-1) |-> Por(U[k][i], U[k][j])], n)]]

\* np.allclose(U.conj().T @ U, np.eye(n), atol=1e-10)
verificar_unitariedad(U, n) == ProductoAdjunto(U, n) = Eye(n)

\* sum of f[i] over the indices i of a finite set
RECURSIVE SumaSobre(_, _)
SumaSobre(f, indices) ==
    IF indices = {} THEN Cero
    ELSE LET i == CHOOSE k \in indices : TRUE
         IN  Mas(f[i], SumaSobre(f, indices \ {i}))

\* the indices below n at which the vector is not zero
Soporte(v, n) == {i \in 0..(n-1) : v[i] # Cero}

\* U @ psi for a vector of length n; the terms with psi[c] = 0 contribute
\* nothing to a row's sum and are left out of it
MatVec(U, n, psi) ==
    LET soporte == Soporte(psi, n)
    IN  [r \in 0..(n-1) |-> SumaSobre([c \in soporte |-> Por(U[r][c], psi[c])],
                                     soporte)]

\* ------------------------------------------------------------------------
\* SimuladorMontyHallCuantico: pure parts of the methods
\* ------------------------------------------------------------------------
\* len(psi) for a vector indexed 0 .. len-1
Longitud(v) == Cardinality(DOMAIN v)

\* preparar_estado_premio writing indices 1, 2, 3 instead of 0, 1, 2
preparar_estado_premio_Desplazado ==
    [Zeros1(dim) EXCEPT ![1] = InvSqrt3, ![2] = InvSqrt3, ![3] = InvSqrt3]

\* psi = np.zeros(64); psi[0] = psi[1] = psi[2] = 1/sqrt(3)
preparar_estado_premio ==
    [Zeros1(dim) EXCEPT ![0] = InvSqrt3, ![1] = InvSqrt3, ![2] = InvSqrt3]

\* self.U_monty @ psi raises ValueError unless len(psi) == 64
MontyLanza(v) == Longitud(v) # dim

\* self.U_monty @ psi
aplicar_operador_monty(U, v) == MatVec(U, dim, v)

\* the loop reads psi[idx_in] for idx_in in range(64): IndexError when the
\* vector is shorter; entries past index 63 are never read
CambiarLanza(v) == Longitud(v) < dim

\* CambiarDestino re-encoding the old jugador instead of the new door
CambiarDestino_SinMover(idx_in) ==
    LET premio == decode_premio(idx_in)
        jugador == decode_jugador(idx_in)
        monty == decode_monty(idx_in)
    IN  IF jugador < 3 /\ monty < 3 /\ jugador # monty
        THEN BitOr(BitOr(ShiftLeft(monty, 4), ShiftLeft(jugador, 2)), premio)
        ELSE idx_in

\* idx_out of aplicar_operador_cambiar_global for one idx_in
CambiarDestino(idx_in) ==
    LET premio == decode_premio(idx_in)
        jugador == decode_jugador(idx_in)
        monty == decode_monty(idx_in)
    IN  IF jugador < 3 /\ monty < 3 /\ jugador # monty
        THEN BitOr(BitOr(ShiftLeft(monty, 4),
                         ShiftLeft(PuertaRestante(jugador, monty), 2)), premio)
        ELSE idx_in

\* psi_out = zeros(64); for idx_in in range(64): skip negligible amplitudes,
\* psi_out[idx_out] += psi[idx_in]
aplicar_operador_cambiar_global(v) ==
    LET visitados == {i \in 0..(dim-1) : ~EsDespreciable(v[i])}
        destino == [i \in visitados |-> CambiarDestino(i)]
    IN  [o \in 0..(dim-1) |->
            SumaSobre(v, {i \in visitados : destino[i] = o})]

\* np.kron(A, B) for square A of order n and square B of order m
Kron(A, n, B, m) ==
    [r \in 0..(n*m-1) |-> [c \in 0..(n*m-1) |->
        Por(A[r \div m][c \div m], B[r % m][c % m])]]

\* I_premio = np.eye(4)
I_premio == Eye(4)

\* U_ext = np.kron(self.U_cambiar, I_premio), which the method builds and
\* never uses
U_ext(U) == Kron(U, dim_cambiar, I_premio, 4)

\* the loop reads psi[idx] for idx in range(64)
CalcularLanza(v) == Longitud(v) < dim

\* calcular_probabilidad_victoria without the test premio == jugador
calcular_probabilidad_victoria_SinFiltro(v) ==
    LET ganadores == {idx \in 0..(dim-1) :
                         /\ ~EsDespreciable(v[idx])
                         /\ decode_premio(idx) < 3}
    IN  SumaSobre([idx \in ganadores |-> AbsCuadrado(v[idx])], ganadores)

\* sum of |amp|^2 over the indices with premio == jugador and premio < 3
calcular_probabilidad_victoria(v) ==
    LET ganadores == {idx \in 0..(dim-1) :
                         /\ ~EsDespreciable(v[idx])
                         /\ decode_premio(idx) = decode_jugador(idx)
                         /\ decode_premio(idx) < 3}
    IN  SumaSobre([idx \in ganadores |-> AbsCuadrado(v[idx])], ganadores)

\* ------------------------------------------------------------------------
\* Classical game: list helpers
\* ------------------------------------------------------------------------
Contiene(lista, e) == \E i \in 1..Len(lista) : lista[i] = e

\* list.remove(e): drops the first occurrence
Remove(lista, e) ==
    LET i == CHOOSE k \in 1..Len(lista) :
                 lista[k] = e /\ \A m \in 1..(k-1) : lista[m] # e
    IN  SubSeq(lista, 1, i - 1) \o SubSeq(lista, i + 1, Len(lista))

\* OpcionesRevelar that never removes the prize door
OpcionesRevelar_ConPremio(premio, eleccion_inicial) ==
    Remove(<<0, 1, 2>>, eleccion_inicial)

\* opciones_revelar of jugar_monty_hall
OpcionesRevelar(premio, eleccion_inicial) ==
    LET sin_eleccion == Remove(<<0, 1, 2>>, eleccion_inicial)
    IN  IF Contiene(sin_eleccion, premio)
        THEN Remove(sin_eleccion, premio) ELSE sin_eleccion

\* EleccionFinal that does not remove the revealed door before choosing
EleccionFinal_SinRevelada(estr, eleccion_inicial, puerta_revelada) ==
    IF estr = "cambiar"
    THEN Remove(<<0, 1, 2>>, eleccion_inicial)[1]
    ELSE eleccion_inicial

\* step 4 of jugar_monty_hall
EleccionFinal(estr, eleccion_inicial, puerta_revelada) ==
    IF estr = "cambiar"
    THEN Remove(Remove(<<0, 1, 2>>, eleccion_inicial), puerta_revelada)[1]
    ELSE eleccion_inicial

\* the ResultadoPartida returned for one outcome of the random draws
ResultadoPartida(estr, premio, eleccion_inicial, puerta_revelada) ==
    LET eleccion_final == EleccionFinal(estr, eleccion_inicial, puerta_revelada)
    IN  [premio |-> premio,
         eleccion_inicial |-> eleccion_inicial,
         puerta_revelada |-> puerta_revelada,
         eleccion_final |-> eleccion_final,
         estrategia |-> estr,
         victoria |-> (eleccion_final = premio)]

\* ------------------------------------------------------------------------
\* simulacion_cuantica_con_medicion.py
\* ------------------------------------------------------------------------
\* eleccion = 0
EleccionMedicion == 0

\* OpcionesMedicion that never removes the prize door
OpcionesMedicion_ConPremio(premio) == Remove(<<0, 1, 2>>, EleccionMedicion)

\* opciones at the reveal: [0, 1, 2] without eleccion and without premio
OpcionesMedicion(premio) ==
    LET sin_eleccion == Remove(<<0, 1, 2>>, EleccionMedicion)
    IN  IF Contiene(sin_eleccion, premio)
        THEN Remove(sin_eleccion, premio) ELSE sin_eleccion

\* the locals of jugar_monty_cuantico_con_medicion at its return, and the
\* value it returns, for one outcome of the two random draws
LocalesMedicion(cambiar, premio, puerta_revelada) ==
    LET eleccion ==
            IF cambiar
            THEN Remove(Remove(<<0, 1, 2>>, EleccionMedicion),
                        puerta_revelada)[1]
            ELSE EleccionMedicion
    IN  [cambiar |-> cambiar,
         premio |-> premio,
         eleccion |-> eleccion,
         puerta_revelada |-> puerta_revelada,
         devuelve |-> (eleccion = premio)]

\* ------------------------------------------------------------------------
\* Inputs
\* ------------------------------------------------------------------------
\* strategy labels passed by callers, one of them unrecognised
Estrategias == {"mantener", "cambiar", "otra"}

\* basis vector of length n with amplitude 1 at index k
Base(n, k) == [i \in 0..(n-1) |-> IF i = k THEN Uno ELSE Cero]

LongitudesErroneas == ((dim - MaxDesvio)..(dim + MaxDesvio)) \ {dim}

\* vectors a caller passes to the methods: every basis vector of the right
\* length, and vectors that are too short or too long
Entradas ==
    {Base(dim, k) : k \in 0..(dim-1)}
    \cup {Base(n, 0) : n \in LongitudesErroneas}
    \cup {Base(n, n - 1) : n \in LongitudesErroneas}

\* ------------------------------------------------------------------------
\* State
\* ------------------------------------------------------------------------
VARIABLES
    programa,    \* which script runs: "cuantico" or "clasico"
    verbose,     \* self.verbose
    impreso,     \* the unitarity lines printed by __init__
    U_monty,     \* self.U_monty
    U_cambiar,   \* self.U_cambiar
    psi,         \* the statevector in hand (local psi / caller's vector)
    origen,      \* "preparado" when psi descends from preparar_estado_premio
    aplicaciones, \* operators a caller has applied in a row to psi
    pc,          \* position in simular_estrategia, "idle" outside of it
    estrategia,  \* label of the simular_estrategia call, "" outside of it
    ultima,      \* name of the last method applied to psi
    prob,        \* <<p>> when the last call returned probability p
    excepcion,   \* exception raised by the last call, "" when none
    partida,     \* <<r>> when jugar_monty_hall returned r
    traza,       \* methods the simular_estrategia call has invoked so far
    mc,          \* locals of the simular_monte_carlo call
    colapso      \* <<l>> when jugar_monty_cuantico_con_medicion returned with
                 \* locals l

vars == <<programa, verbose, impreso, U_monty, U_cambiar, psi, origen,
          aplicaciones, pc, estrategia, ultima, prob, excepcion, partida,
          traza, mc, colapso>>

operadores == <<programa, verbose, impreso, U_monty, U_cambiar>>

\* resultados as simular_monte_carlo creates it; "probabilidad" is << >>
\* while the key is absent
ResultadosIniciales ==
    [e \in {"mantener", "cambiar"} |->
        [victorias |-> 0, derrotas |-> 0, partidas |-> << >>,
         probabilidad |-> << >>]]

\* no call of simular_monte_carlo is in progress
SinMonteCarlo ==
    [fase |-> "idle", num_partidas |-> 0, k |-> 1, jugadas |-> 0,
     resultados |-> ResultadosIniciales]

\* __init__ followed by the caller's choice of a vector
Init ==
    /\ U_monty = crear_operador_monty
    /\ U_cambiar = crear_operador_cambiar
    /\ verbose \in BOOLEAN
    /\ impreso =
         IF verbose
         THEN <<[nombre |-> "Monty",
                 es_unitaria |-> verificar_unitariedad(U_monty, dim)],
                [nombre |-> "Cambiar",
                 es_unitaria |-> verificar_unitariedad(U_cambiar, dim_cambiar)]>>
         ELSE << >>
    /\ programa \in {"cuantico", "clasico", "medicion"}
    /\ psi \in (IF programa = "cuantico" THEN Entradas ELSE {Zeros1(dim)})
    /\ origen = "entrada"
    /\ aplicaciones = 0
    /\ pc = "idle"
    /\ estrategia = ""
    /\ ultima = ""
    /\ prob = << >>
    /\ excepcion = ""
    /\ partida = << >>
    /\ traza = << >>
    /\ mc = SinMonteCarlo
    /\ colapso = << >>

FueraDeLlamada ==
    /\ programa = "cuantico"
    /\ pc \in {"idle", "scored"}
    /\ excepcion = ""

\* a caller invokes preparar_estado_premio()
Preparar ==
    /\ FueraDeLlamada
    /\ psi' = preparar_estado_premio
    /\ origen' = "preparado"
    /\ aplicaciones' = 0
    /\ pc' = "idle" /\ estrategia' = ""
    /\ ultima' = "preparar_estado_premio"
    /\ prob' = << >>
    /\ traza' = << >>
    /\ UNCHANGED <<mc, colapso, operadores, excepcion, partida>>

\* a caller invokes aplicar_operador_monty(psi)
AplicarMonty ==
    /\ FueraDeLlamada
    /\ aplicaciones < MaxAplicaciones
    /\ aplicaciones' = aplicaciones + 1
    /\ pc' = "idle" /\ estrategia' = ""
    /\ ultima' = "aplicar_operador_monty"
    /\ prob' = << >>
    /\ IF MontyLanza(psi)
       THEN excepcion' = "ValueError" /\ psi' = psi
       ELSE excepcion' = "" /\ psi' = aplicar_operador_monty(U_monty, psi)
    /\ traza' = << >>
    /\ UNCHANGED <<mc, colapso, operadores, origen, partida>>

\* a caller invokes aplicar_operador_cambiar_global(psi)
AplicarCambiar ==
    /\ FueraDeLlamada
    /\ aplicaciones < MaxAplicaciones
    /\ aplicaciones' = aplicaciones + 1
    /\ pc' = "idle" /\ estrategia' = ""
    /\ ultima' = "aplicar_operador_cambiar_global"
    /\ prob' = << >>
    /\ IF CambiarLanza(psi)
       THEN excepcion' = "IndexError" /\ psi' = psi
       ELSE excepcion' = "" /\ psi' = aplicar_operador_cambiar_global(psi)
    /\ traza' = << >>
    /\ UNCHANGED <<mc, colapso, operadores, origen, partida>>

\* a caller invokes calcular_probabilidad_victoria(psi)
Calcular ==
    /\ FueraDeLlamada
    /\ pc' = "idle" /\ estrategia' = ""
    /\ ultima' = "calcular_probabilidad_victoria"
    /\ IF CalcularLanza(psi)
       THEN excepcion' = "IndexError" /\ prob' = << >>
       ELSE excepcion' = "" /\ prob' = <<calcular_probabilidad_victoria(psi)>>
    /\ traza' = << >>
    /\ UNCHANGED <<mc, colapso, operadores, psi, origen, aplicaciones, partida>>

\* simular_estrategia(e), Paso 1: psi = self.preparar_estado_premio()
SimularPaso1(e) ==
    /\ FueraDeLlamada
    /\ estrategia' = e
    /\ psi' = preparar_estado_premio
    /\ origen' = "preparado"
    /\ aplicaciones' = 0
    /\ pc' = "initial"
    /\ ultima' = "preparar_estado_premio"
    /\ prob' = << >>
    /\ traza' = <<"preparar_estado_premio">>
    /\ UNCHANGED <<mc, colapso, operadores, excepcion, partida>>

\* Paso 2: psi = self.aplicar_operador_monty(psi)
SimularPaso2 ==
    /\ programa = "cuantico" /\ pc = "initial"
    /\ IF MontyLanza(psi)
       THEN excepcion' = "ValueError" /\ psi' = psi /\ pc' = "idle"
       ELSE /\ excepcion' = ""
            /\ psi' = aplicar_operador_monty(U_monty, psi)
            /\ pc' = "revealed"
    /\ ultima' = "aplicar_operador_monty"
    /\ traza' = Append(traza, "aplicar_operador_monty")
    /\ UNCHANGED <<mc, colapso, operadores, origen, aplicaciones, estrategia, prob, partida>>

\* Paso 3 applying the switch operator whatever the label
SimularPaso3_Siempre ==
    /\ programa = "cuantico" /\ pc = "revealed"
    /\ ultima' = "aplicar_operador_cambiar_global"
    /\ traza' = Append(traza, "aplicar_operador_cambiar_global")
    /\ IF CambiarLanza(psi)
       THEN excepcion' = "IndexError" /\ psi' = psi /\ pc' = "idle"
       ELSE /\ excepcion' = ""
            /\ psi' = aplicar_operador_cambiar_global(psi)
            /\ pc' = "decided"
    /\ UNCHANGED <<mc, colapso, operadores, origen, aplicaciones, estrategia, prob, partida>>

\* Paso 3: if estrategia == "cambiar": psi = aplicar_operador_cambiar_global(psi)
SimularPaso3 ==
    /\ programa = "cuantico" /\ pc = "revealed"
    /\ IF estrategia = "cambiar"
       THEN /\ ultima' = "aplicar_operador_cambiar_global"
            /\ traza' = Append(traza, "aplicar_operador_cambiar_global")
            /\ IF CambiarLanza(psi)
               THEN excepcion' = "IndexError" /\ psi' = psi /\ pc' = "idle"
               ELSE /\ excepcion' = ""
                    /\ psi' = aplicar_operador_cambiar_global(psi)
                    /\ pc' = "decided"
       ELSE UNCHANGED <<ultima, excepcion, psi, traza>> /\ pc' = "decided"
    /\ UNCHANGED <<mc, colapso, operadores, origen, aplicaciones, estrategia, prob, partida>>

\* Paso 4: return self.calcular_probabilidad_victoria(psi)
SimularPaso4 ==
    /\ programa = "cuantico" /\ pc = "decided"
    /\ IF CalcularLanza(psi)
       THEN excepcion' = "IndexError" /\ prob' = << >> /\ pc' = "idle"
       ELSE /\ excepcion' = ""
            /\ prob' = <<calcular_probabilidad_victoria(psi)>>
            /\ pc' = "scored"
    /\ ultima' = "calcular_probabilidad_victoria"
    /\ traza' = Append(traza, "calcular_probabilidad_victoria")
    /\ UNCHANGED <<mc, colapso, operadores, psi, origen, aplicaciones, estrategia, partida>>

\* jugar_monty_hall(e): the three random draws and the whole game
JugarMontyHall(e) ==
    /\ programa = "clasico"
    /\ \E premio \in 0..2, eleccion_inicial \in 0..2 :
         LET opciones_revelar == OpcionesRevelar(premio, eleccion_inicial)
         IN  \E i \in 1..Len(opciones_revelar) :
                partida' = <<ResultadoPartida(e, premio, eleccion_inicial,
                                              opciones_revelar[i])>>
    /\ UNCHANGED <<mc, colapso, operadores, psi, origen, aplicaciones, pc, estrategia,
                   ultima, prob, excepcion, traza>>

\* jugar_monty_cuantico_con_medicion(cambiar): the two random draws and the
\* whole game; the call returns devuelve
JugarMontyCuanticoConMedicion(cambiar) ==
    /\ programa = "medicion"
    /\ \E premio \in 0..2 :
         LET opciones == OpcionesMedicion(premio)
         IN  \E i \in 1..Len(opciones) :
                colapso' = <<LocalesMedicion(cambiar, premio, opciones[i])>>
    /\ UNCHANGED <<mc, operadores, psi, origen, aplicaciones, pc, estrategia,
                   ultima, prob, excepcion, partida, traza>>

Next ==
    \/ Preparar
    \/ AplicarMonty
    \/ AplicarCambiar
    \/ Calcular
    \/ \E e \in Estrategias : SimularPaso1(e)
    \/ SimularPaso2
    \/ SimularPaso3
    \/ SimularPaso4
    \/ \E e \in Estrategias : JugarMontyHall(e)
    \/ \E cambiar \in BOOLEAN : JugarMontyCuanticoConMedicion(cambiar)

Spec == Init /\ [][Next]_vars

\* ------------------------------------------------------------------------
\* simulacion_clasica.py: simular_monte_carlo
\* ------------------------------------------------------------------------
\* the list the outer for loop runs over
EstrategiasMonteCarlo == <<"mantener", "cambiar">>

\* Guardar solo primeras 10 partidas para muestra
TopeMuestra == 10

\* victorias / total for total > 0
Dividir(victorias, total) == Reducir(<<victorias, 0, 0, 0, total>>)

\* RegistrarPartida appending to the sample list whatever its length
RegistrarPartida_SinTope(r, p) ==
    LET contado == IF p.victoria THEN [r EXCEPT !.victorias = @ + 1]
                                 ELSE [r EXCEPT !.derrotas = @ + 1]
    IN  [contado EXCEPT !.partidas = Append(@, p.estrategia)]

\* body of the inner loop after the game p was played, on the entry r of
\* resultados; a stored ResultadoPartida is represented by its estrategia
RegistrarPartida(r, p) ==
    LET contado == IF p.victoria THEN [r EXCEPT !.victorias = @ + 1]
                                 ELSE [r EXCEPT !.derrotas = @ + 1]
    IN  IF Len(contado.partidas) < TopeMuestra
        THEN [contado EXCEPT !.partidas = Append(@, p.estrategia)]
        ELSE contado

\* simular_monte_carlo(n) is entered: resultados is created and the loops
\* are reached; range(0) leaves them at once
SimularMonteCarlo(n) ==
    /\ programa = "montecarlo"
    /\ mc.fase \in {"idle", "fin"}
    /\ excepcion = ""
    /\ mc' = [fase |-> IF n = 0 THEN "probabilidades" ELSE "bucle",
              num_partidas |-> n, k |-> 1, jugadas |-> 0,
              resultados |-> ResultadosIniciales]
    /\ UNCHANGED <<colapso, operadores, psi, origen, aplicaciones, pc, estrategia,
                   ultima, prob, excepcion, partida, traza>>

\* one iteration of the inner loop for EstrategiasMonteCarlo[k], and the
\* loop bookkeeping that follows it
MonteCarloIteracion ==
    /\ programa = "montecarlo"
    /\ mc.fase = "bucle"
    /\ LET e == EstrategiasMonteCarlo[mc.k]
           hechas == mc.jugadas + 1
           ultimaVuelta == hechas = mc.num_partidas
       IN  \E premio \in 0..2, eleccion_inicial \in 0..2 :
             LET opciones_revelar == OpcionesRevelar(premio, eleccion_inicial)
             IN  \E i \in 1..Len(opciones_revelar) :
                   LET p == ResultadoPartida(e, premio, eleccion_inicial,
                                             opciones_revelar[i])
                   IN  mc' = [mc EXCEPT
                         !.resultados[e] = RegistrarPartida(@, p),
                         !.jugadas = IF ultimaVuelta THEN 0 ELSE hechas,
                         !.k = IF ultimaVuelta THEN @ + 1 ELSE @,
                         !.fase = IF ultimaVuelta
                                     /\ mc.k = Len(EstrategiasMonteCarlo)
                                  THEN "probabilidades" ELSE @]
    /\ UNCHANGED <<colapso, operadores, psi, origen, aplicaciones, pc, estrategia,
                   ultima, prob, excepcion, partida, traza>>

\* for estrategia in resultados: probabilidad = victorias / total; the
\* first total of 0 raises ZeroDivisionError and ends the call
MonteCarloProbabilidades ==
    /\ programa = "montecarlo"
    /\ mc.fase = "probabilidades"
    /\ LET r == mc.resultados
           total(e) == r[e].victorias + r[e].derrotas
           p(e) == <<Dividir(r[e].victorias, total(e))>>
       IN  IF total("mantener") = 0
           THEN /\ excepcion' = "ZeroDivisionError"
                /\ mc' = [mc EXCEPT !.fase = "fin"]
           ELSE IF total("cambiar") = 0
           THEN /\ excepcion' = "ZeroDivisionError"
                /\ mc' = [mc EXCEPT !.fase = "fin",
                             !.resultados["mantener"].probabilidad =
                                 p("mantener")]
           ELSE /\ excepcion' = ""
                /\ mc' = [mc EXCEPT !.fase = "fin",
                             !.resultados["mantener"].probabilidad =
                                 p("mantener"),
                             !.resultados["cambiar"].probabilidad =
                                 p("cambiar")]
    /\ UNCHANGED <<colapso, operadores, psi, origen, aplicaciones, pc, estrategia,
                   ultima, prob, partida, traza>>

\* simulacion_clasica.py builds no quantum simulator
InitMonteCarlo ==
    /\ programa = "montecarlo"
    /\ verbose = FALSE
    /\ impreso = << >>
    /\ U_monty = << >>
    /\ U_cambiar = << >>
    /\ psi = << >>
    /\ origen = "entrada"
    /\ aplicaciones = 0
    /\ pc = "idle"
    /\ estrategia = ""
    /\ ultima = ""
    /\ prob = << >>
    /\ excepcion = ""
    /\ partida = << >>
    /\ traza = << >>
    /\ mc = SinMonteCarlo
    /\ colapso = << >>

NextMonteCarlo ==
    \/ \E n \in 0..MaxPartidas : SimularMonteCarlo(n)
    \/ MonteCarloIteracion
    \/ MonteCarloProbabilidades

SpecMonteCarlo == InitMonteCarlo /\ [][NextMonteCarlo]_vars

\* sum of |amp|^2 over the whole vector
Norma(v) == SumaSobre([i \in DOMAIN v |-> AbsCuadrado(v[i])], Soporte(v, Longitud(v)))

TypeOK ==
    /\ programa \in {"cuantico", "clasico", "medicion", "montecarlo"}
    /\ pc \in {"idle", "initial", "revealed", "decided", "scored"}
    /\ estrategia \in Estrategias \cup {""}
    /\ excepcion \in {"", "ValueError", "IndexError", "ZeroDivisionError"}
    /\ aplicaciones \in 0..MaxAplicaciones
    /\ Len(prob) <= 1
    /\ Len(partida) <= 1
    /\ Len(traza) <= 4
    /\ Len(colapso) <= 1

\* ------------------------------------------------------------------------
\* Properties
\* ------------------------------------------------------------------------
Tercio == <<1, 0, 0, 0, 3>>
DosTercios == <<2, 0, 0, 0, 3>>
Puertas == {0, 1, 2}
Registro == {0, 1, 2, 3}

\* the basis index of (premio, jugador, monty), written arithmetically
Indice(premio, jugador, monty) == 16 * monty + 4 * jugador + premio

C2_MontyUnitario == verificar_unitariedad(U_monty, dim)

\* C3: the matrix built by crear_operador_cambiar is a permutation matrix
\* (one 1 in every row and column, 0 elsewhere) and passes the unitarity
\* check; it sends (jugador, monty) to (third door, monty) for distinct valid
\* doors and is the identity when jugador = monty or a register is 3.
C3_CambiarPermutacion ==
    /\ \A r, c \in 0..(dim_cambiar-1) : U_cambiar[r][c] \in {Cero, Uno}
    /\ \A r \in 0..(dim_cambiar-1) :
          Cardinality({c \in 0..(dim_cambiar-1) : U_cambiar[r][c] = Uno}) = 1
    /\ \A c \in 0..(dim_cambiar-1) :
          Cardinality({r \in 0..(dim_cambiar-1) : U_cambiar[r][c] = Uno}) = 1
    /\ \A j, m \in Registro :
          IF j \in Puertas /\ m \in Puertas /\ j # m
          THEN \E d \in Puertas \ {j, m} : U_cambiar[4 * m + d][4 * m + j] = Uno
          ELSE U_cambiar[4 * m + j][4 * m + j] = Uno
    /\ verbose => impreso[2].es_unitaria

C3_Witness ==
    /\ verbose /\ impreso[2].nombre = "Cambiar" /\ impreso[2].es_unitaria
    /\ U_cambiar[4 * 1 + 2][4 * 1 + 0] = Uno
    /\ U_cambiar[15][15] = Uno

\* C4: encode and the decoding used by the methods are exact inverses on
\* the registers 0..3 and the indices 0..63, in particular on every index
\* of the statevector in hand.
C4_Codec ==
    /\ \A p, j, m \in Registro : decode(encode(p, j, m)) = <<p, j, m>>
    /\ \A i \in 0..(dim-1) :
          encode(decode_premio(i), decode_jugador(i), decode_monty(i)) = i
    /\ \A i \in DOMAIN psi :
          (i < dim /\ psi[i] # Cero) =>
              /\ decode(i) = <<i % 4, (i \div 4) % 4, i \div 16>>
              /\ encode(i % 4, (i \div 4) % 4, i \div 16) = i

C4_Witness ==
    /\ ultima = "aplicar_operador_cambiar_global" /\ excepcion = ""
    /\ psi[Indice(1, 2, 1)] = Uno
    /\ decode(Indice(1, 2, 1)) = <<1, 2, 1>>

\* C5: after preparar_estado_premio and after any sequence of applications
\* of the two operators, every index with a register equal to 3 has
\* amplitude zero.
C5_SubespacioCerrado ==
    (origen = "preparado" /\ excepcion = "") =>
        \A p, j, m \in Registro :
            (p = 3 \/ j = 3 \/ m = 3) => psi[Indice(p, j, m)] = Cero

C5_Witness ==
    /\ origen = "preparado" /\ pc = "idle"
    /\ ultima = "aplicar_operador_cambiar_global"
    /\ psi[Indice(1, 1, 2)] # Cero

\* C6: the squared amplitudes of the statevector sum to 1 at every stage
\* of simular_estrategia, for every strategy label.
C6_NormaUno ==
    pc \in {"initial", "revealed", "decided", "scored"} => Norma(psi) = Uno

C6_Witness ==
    /\ pc = "decided" /\ estrategia = "cambiar"
    /\ psi[Indice(0, 2, 1)] # Cero
    /\ Norma(psi) = Uno

C8_PuertaRevelada ==
    partida # << >> =>
        LET r == partida[1]
        IN  /\ r.puerta_revelada \in Puertas \ {r.premio, r.eleccion_inicial}
            /\ r.estrategia = "cambiar" =>
                  r.eleccion_final
                      \in Puertas \ {r.eleccion_inicial, r.puerta_revelada}
            /\ r.estrategia # "cambiar" =>
                  r.eleccion_final = r.eleccion_inicial

C8_Witness ==
    /\ partida # << >>
    /\ partida[1].estrategia = "cambiar"
    /\ partida[1].premio = partida[1].eleccion_inicial
    /\ partida[1].eleccion_final # partida[1].eleccion_inicial

\* C9: with "mantener" the player wins exactly when the initial choice is
\* the prize door, with "cambiar" exactly when it is not.
C9_Victoria ==
    partida # << >> =>
        LET r == partida[1]
        IN  /\ r.estrategia = "mantener" =>
                  (r.victoria <=> r.eleccion_inicial = r.premio)
            /\ r.estrategia = "cambiar" =>
                  (r.victoria <=> r.eleccion_inicial # r.premio)

C9_Witness ==
    /\ partida # << >>
    /\ partida[1].estrategia = "cambiar"
    /\ partida[1].victoria
    /\ partida[1].eleccion_inicial # partida[1].premio

\* C10: applying aplicar_operador_monty or aplicar_operador_cambiar_global
\* to a vector whose length is not 64 raises and produces no result vector.
C10_DimensionFatal ==
    [][(/\ FueraDeLlamada
        /\ Longitud(psi) # dim
        /\ ultima' \in {"aplicar_operador_monty",
                        "aplicar_operador_cambiar_global"})
       => (excepcion' # "" /\ psi' = psi)]_vars
TrazaCompleta(e) ==
    IF e = "cambiar"
    THEN <<"preparar_estado_premio", "aplicar_operador_monty",
           "aplicar_operador_cambiar_global", "calcular_probabilidad_victoria">>
    ELSE <<"preparar_estado_premio", "aplicar_operador_monty",
           "calcular_probabilidad_victoria">>

\* C13: every call of simular_estrategia goes INITIAL -> REVEALED -> DECIDED
\* -> SCORED in that order without raising; the Monty operator is applied
\* once, on the way to REVEALED; the switch operator is applied once, on the
\* way to DECIDED, exactly when the label is "cambiar"; for every other
\* label the state is left as revealed up to SCORED.
C13_Pipeline ==
    [][/\ pc = "initial" =>
            /\ pc' = "revealed" /\ excepcion' = ""
            /\ traza = <<"preparar_estado_premio">>
            /\ traza' = Append(traza, "aplicar_operador_monty")
            /\ psi' = aplicar_operador_monty(U_monty, psi)
       /\ pc = "revealed" =>
            /\ pc' = "decided" /\ excepcion' = ""
            /\ IF estrategia = "cambiar"
               THEN /\ traza' = Append(traza, "aplicar_operador_cambiar_global")
                    /\ psi' = aplicar_operador_cambiar_global(psi)
               ELSE traza' = traza /\ psi' = psi
       /\ pc = "decided" =>
            /\ pc' = "scored" /\ excepcion' = ""
            /\ psi' = psi
            /\ traza' = TrazaCompleta(estrategia)
            /\ Len(prob') = 1
       /\ pc' = "initial" => pc \in {"idle", "scored"}
       /\ pc' = "revealed" => pc = "initial"
       /\ pc' = "decided" => pc = "revealed"
       /\ pc' = "scored" => pc = "decided"
       /\ pc \in {"initial", "revealed", "decided"} =>
            estrategia' = estrategia]_vars

C13_Witness ==
    /\ pc = "scored" /\ estrategia = "otra" /\ excepcion = ""
    /\ traza = <<"preparar_estado_premio", "aplicar_operador_monty",
                 "calcular_probabilidad_victoria">>
    /\ psi = aplicar_operador_monty(U_monty, preparar_estado_premio)

\* C14: the column of U_monty for a basis index whose monty register is not
\* 0, or whose monty register is 0 and whose premio or jugador register is
\* 3, has a single entry 1, on the diagonal (U_monty never changes after
\* construction: it is inspected at the revealed stage); and applying the
\* Monty operator once more to the revealed state returns the same state.
C14_MontyIdentidad ==
    [][/\ pc = "revealed" =>
            /\ \A p, j, m \in Registro :
                  (m # 0 \/ p = 3 \/ j = 3) =>
                      \A r \in 0..(dim-1) :
                          U_monty[r][Indice(p, j, m)] =
                              IF r = Indice(p, j, m) THEN Uno ELSE Cero
            /\ aplicar_operador_monty(U_monty, psi) = psi
       /\ (/\ ultima' = "aplicar_operador_monty"
           /\ \/ (ultima = "aplicar_operador_monty" /\ origen = "preparado"
                  /\ pc = "idle" /\ aplicaciones = 1)
              \/ (pc = "scored" /\ estrategia # "cambiar"))
          => (excepcion' = "" /\ psi' = psi)]_vars

C14_Witness ==
    /\ origen = "preparado" /\ pc = "idle" /\ aplicaciones = 2
    /\ ultima = "aplicar_operador_monty" /\ excepcion = ""
    /\ psi = aplicar_operador_monty(U_monty, preparar_estado_premio)
    /\ psi[Indice(0, 0, 1)] = <<0, 0, 0, 1, 6>>
    /\ U_monty[Indice(0, 0, 1)][Indice(0, 0, 1)] = Uno
    /\ U_monty[Indice(3, 1, 0)][Indice(3, 1, 0)] = Uno

\* the constructor printed that the named operator is not unitary
FalloImpreso(nombre) ==
    \E i \in 1..Len(impreso) :
        impreso[i].nombre = nombre /\ ~impreso[i].es_unitaria

\* C15: for either value of verbose, an operator of the constructed
\* simulator that fails the unitarity check has its failure reported; the
\* construction completes without an exception all the same.
C15_FalloInformado ==
    /\ ultima = "" => excepcion = ""
    /\ ~FalloImpreso("Monty") => verificar_unitariedad(U_monty, dim)
    /\ ~FalloImpreso("Cambiar") => verificar_unitariedad(U_cambiar, dim_cambiar)

\* games of the strategy played so far by the simular_monte_carlo call
Jugadas(e) ==
    LET i == CHOOSE j \in 1..Len(EstrategiasMonteCarlo) :
                 EstrategiasMonteCarlo[j] = e
    IN  IF mc.fase = "idle" THEN 0
        ELSE IF i < mc.k \/ mc.fase # "bucle" THEN mc.num_partidas
        ELSE IF i = mc.k THEN mc.jugadas
        ELSE 0

Minimo(a, b) == IF a < b THEN a ELSE b

\* C16: in simular_monte_carlo, for each strategy and after every loop
\* iteration, victorias + derrotas is the number of games played so far
\* and the sample list has min(games played, 10) entries; at the end, for
\* num_partidas >= 1, victorias + derrotas = num_partidas and probabilidad
\* = victorias / num_partidas lies in [0, 1]; num_partidas = 0 makes the
\* probability computation raise ZeroDivisionError.
C16_MonteCarlo ==
    /\ \A e \in {"mantener", "cambiar"} :
          LET r == mc.resultados[e]
          IN  /\ r.victorias + r.derrotas = Jugadas(e)
              /\ Len(r.partidas) = Minimo(Jugadas(e), 10)
              /\ (mc.fase = "fin" /\ mc.num_partidas >= 1) =>
                    /\ r.victorias + r.derrotas = mc.num_partidas
                    /\ Len(r.probabilidad) = 1
                    /\ LET q == r.probabilidad[1]
                       IN  /\ q[1] * mc.num_partidas = r.victorias * q[5]
                           /\ q[2] = 0 /\ q[3] = 0 /\ q[4] = 0
                           /\ 0 <= q[1] /\ q[1] <= q[5]
    /\ (mc.fase = "fin" /\ mc.num_partidas >= 1) => excepcion = ""
    /\ (mc.fase = "fin" /\ mc.num_partidas = 0) =>
          /\ excepcion = "ZeroDivisionError"
          /\ \A e \in {"mantener", "cambiar"} :
                mc.resultados[e].probabilidad = << >>

C16_Witness ==
    /\ mc.fase = "fin" /\ mc.num_partidas = 11 /\ excepcion = ""
    /\ mc.resultados["cambiar"].victorias = 7
    /\ mc.resultados["cambiar"].derrotas = 4
    /\ Len(mc.resultados["cambiar"].partidas) = 10
    /\ mc.resultados["cambiar"].probabilidad = <<(<<7, 0, 0, 0, 11>>)>>

\* the locals of jugar_monty_cuantico_con_medicion over all random draws
ResultadosConMedicion(cambiar) ==
    UNION {{LocalesMedicion(cambiar, premio, OpcionesMedicion(premio)[i]) :
               i \in 1..Len(OpcionesMedicion(premio))} : premio \in 0..2}

\* the (premio, jugador, monty) triples with nonzero amplitude
Triples(v) == {decode(idx) : idx \in Soporte(v, dim)}

TripleDe(l) == <<l.premio, l.eleccion, l.puerta_revelada>>

\* the triple is counted as a win by calcular_probabilidad_victoria
CuentaComoVictoria(t) ==
    calcular_probabilidad_victoria(Base(dim, encode(t[1], t[2], t[3]))) = Uno

\* the state simular_estrategia scores
EstadoFinal(cambiar) ==
    LET revelado == aplicar_operador_monty(U_monty, preparar_estado_premio)
    IN  IF cambiar THEN aplicar_operador_cambiar_global(revelado)
        ELSE revelado

\* C17: for each strategy the (premio, jugador, monty) triples with nonzero
\* amplitude in the final state of simular_estrategia are exactly the
\* (premio, final choice, revealed door) outcomes of
\* jugar_monty_cuantico_con_medicion over all random draws, and
\* calcular_probabilidad_victoria counts a triple as a win exactly when the
\* collapse variant returns True for it.
C17_MismosResultados ==
    /\ (pc = "scored" /\ estrategia \in {"mantener", "cambiar"}) =>
          LET R == ResultadosConMedicion(estrategia = "cambiar")
          IN  /\ Triples(psi) = {TripleDe(l) : l \in R}
              /\ \A l \in R : l.devuelve <=> CuentaComoVictoria(TripleDe(l))
    /\ colapso # << >> =>
          LET l == colapso[1]
          IN  /\ TripleDe(l) \in Triples(EstadoFinal(l.cambiar))
              /\ l.devuelve <=> CuentaComoVictoria(TripleDe(l))

C17_Witness ==
    /\ colapso # << >>
    /\ colapso[1].cambiar /\ colapso[1].devuelve
    /\ TripleDe(colapso[1]) = <<2, 2, 1>>
    /\ EstadoFinal(TRUE)[Indice(2, 2, 1)] = InvSqrt3
====
